---- MODULE Spec2Model ----
(***************************************************************************)
(* Model of the exabgp API command handlers (teardown, show neighbor), of  *)
(* the asynchronous command scheduler they hand their generators to, of    *)
(* the neighbor renderings (json, extensive, summary), of the family       *)
(* configuration section and of the syslog forwarding loop.                *)
(***************************************************************************)
EXTENDS Integers, Sequences, FiniteSets, TLC

\* ------------------------------------------------------------------ bounds
NumPeers == 2
MaxDesc == 2
MaxCalls == 2

Peers == 1..NumPeers
Services == {1, 2}

VARIABLES
    pc,        \* position of the command under execution
    tin,       \* input of the teardown command
    out,       \* per service: what reactor.processes wrote to it, in order
    calls,     \* reactor.teardown_peer invocations, in order
    logs,      \* self.log_message invocations, in order
    ret,       \* what the handler returned: "True", "False", or "raised"
    content,   \* the family section under construction: AFI -> list of SAFI
    fam_last,  \* the last operation on the family section and how it ended
    fam_ops,   \* number of operations applied to the family section
    env,       \* what the reactor holds: the connected peers, the configuration
    cmds,      \* the commands handed to a handler so far, in order
    sched,     \* the reactor.asynchronous.schedule invocations, in order
    queue,     \* the tasks the scheduler holds, in scheduling order
    status,    \* per command: the state of its task
    connected, \* the services whose control channel is open
    inbox,     \* per service: the command lines received and not yet dispatched
    snap,      \* the answer of reactor.neighbor_cli_data handed to the renderings
    rendered,  \* what as_dict, extensive and summary made of it
    counter,   \* syslog-1.py: the variable counter
    line,      \* syslog-1.py: the variable line
    run,       \* the empty lines read since the last line that was not empty
    read,      \* the lines read that were not empty, in order
    logged,    \* the syslog.syslog invocations, in order
    interrupts \* the KeyboardInterrupt raised so far

famvars == <<content, fam_last, fam_ops>>
tdvars == <<tin, calls, logs, ret>>
asyncvars == <<env, cmds, sched, queue, status, connected, inbox>>
rendervars == <<snap, rendered>>
sysvars == <<counter, line, run, read, logged, interrupts>>
vars == <<pc, out, tdvars, famvars, asyncvars, rendervars, sysvars>>

\* ------------------------------------------------------------ sequence helpers
RECURSIVE SeqsUpTo(_, _)
SeqsUpTo(S, n) ==
    IF n = 0 THEN {<<>>}
    ELSE LET shorter == SeqsUpTo(S, n - 1)
         IN  shorter \cup {Append(q, x) : q \in {r \in shorter : Len(r) = n - 1}, x \in S}

Range(q) == {q[i] : i \in 1..Len(q)}

\* every ordering of every subset of S
Orderings(S) == {q \in SeqsUpTo(S, Cardinality(S)) : Cardinality(Range(q)) = Len(q)}

\* the output written to a service
Line(c, t, p, i, by) == [cmd |-> c, kind |-> "line", t |-> t, p |-> p, i |-> i, by |-> by]
Marker(c, k, by) == [cmd |-> c, kind |-> k, t |-> "", p |-> 0, i |-> 0, by |-> by]
IsMarker(e) == e.kind \in {"answer-done", "answer-error"}

\* ------------------------------------------------------------------ teardown
Verb == <<"t", "e", "a", "r", "d", "o", "w", "n">>
Codes == {<<>>, <<"6">>, <<"1", "6">>, <<"0", "6">>, <<"a", "b", "c">>,
          <<"6", " ", "1">>, <<"S2">>}
\* "S2" is the character SUPERSCRIPT TWO, a digit that is not a decimal
TeardownLines == {Verb} \cup {Verb \o <<" ">> \o c : c \in Codes}

Decimals == <<"0", "1", "2", "3", "4", "5", "6", "7", "8", "9">>
DecimalValue(ch) == (CHOOSE i \in 1..10 : Decimals[i] = ch) - 1
IsDecimalChar(ch) == \E i \in 1..10 : Decimals[i] = ch

\* str.isdigit
isdigit(s) == Len(s) > 0 /\ \A i \in 1..Len(s) : IsDecimalChar(s[i]) \/ s[i] = "S2"

\* int(str) raises ValueError unless every character is a decimal
IntRaises(s) == Len(s) = 0 \/ \E i \in 1..Len(s) : ~IsDecimalChar(s[i])
RECURSIVE int(_)
int(s) == IF Len(s) = 0 THEN 0
          ELSE 10 * int(SubSeq(s, 1, Len(s) - 1)) + DecimalValue(s[Len(s)])

HasSpace(s) == \E i \in 1..Len(s) : s[i] = " "
\* line.split(' ', 1)[1]
AfterFirstSpace(s) ==
    LET k == CHOOSE i \in 1..Len(s) : s[i] = " " /\ \A j \in 1..(i - 1) : s[j] # " "
    IN  SubSeq(s, k + 1, Len(s))

Exceptions == {"ValueError", "IndexError", "RuntimeError"}
Caught == {"ValueError", "IndexError"}

\* a neighbor description: the established peers it matches, and whether
\* matching it raises
Descriptions == [m : SUBSET Peers, raises : {"no"} \cup Exceptions]

match_neighbor(description, key) ==
    IF description.raises # "no" THEN description.raises
    ELSE IF key \in description.m THEN "True" ELSE "False"

\* what a collaborator of one command does: which call raises what
Faults == {[site |-> "none", n |-> 0, exc |-> "no"]}
    \cup [site : {"extract_neighbors", "established_peers"}, n : {1}, exc : Exceptions]
    \cup [site : {"teardown_peer"}, n : 1..MaxCalls, exc : Exceptions]

TeardownInputs ==
    [service : {1}, line : TeardownLines, descriptions : SeqsUpTo(Descriptions, MaxDesc),
     established : Orderings(Peers), fault : Faults]

\* lines 185-189: the two nested loops, flattened; k counts the (key, description)
\* pairs visited so far.  An exception stops the loop and is kept in exc.
RECURSIVE TeardownLoop(_, _, _, _, _)
TeardownLoop(k, acc, keys, code, in) ==
    LET D == Len(in.descriptions)
        key == keys[((k - 1) \div D) + 1]
        description == in.descriptions[((k - 1) % D) + 1]
        matched == match_neighbor(description, key)
        call == [key |-> key, code |-> int(code)]
    IN  IF D = 0 \/ k > Len(keys) * D THEN acc
        ELSE IF matched \in Exceptions THEN [acc EXCEPT !.exc = matched]
        ELSE IF matched = "False" THEN TeardownLoop(k + 1, acc, keys, code, in)
        ELSE IF IntRaises(code) THEN [acc EXCEPT !.exc = "ValueError"]
        ELSE IF in.fault.site = "teardown_peer" /\ in.fault.n = Len(acc.calls) + 1
             THEN [acc EXCEPT !.calls = Append(@, call), !.exc = in.fault.exc]
        ELSE TeardownLoop(k + 1,
                 [acc EXCEPT !.calls = Append(@, call), !.logs = Append(@, description)],
                 keys, code, in)

\* lines 176-191: the body of the try block; answer is the marker the body
\* itself wrote, exc the exception that left it
TeardownBody(in) ==
    LET none == [calls |-> <<>>, logs |-> <<>>, exc |-> "no", answer |-> "none"]
        code == AfterFirstSpace(in.line)
        looped == TeardownLoop(1, none, in.established, code, in)
    IN  IF in.fault.site = "extract_neighbors" THEN [none EXCEPT !.exc = in.fault.exc]
        ELSE IF ~HasSpace(in.line) THEN [none EXCEPT !.answer = "answer-error"]
        ELSE IF ~isdigit(code) THEN [none EXCEPT !.answer = "answer-error"]
        ELSE IF in.fault.site = "established_peers" THEN [none EXCEPT !.exc = in.fault.exc]
        ELSE IF looped.exc # "no" THEN looped
        ELSE [looped EXCEPT !.answer = "answer-done"]

\* lines 174-197: the handler with its two except clauses
teardown(in) ==
    LET body == TeardownBody(in)
    IN  IF body.exc \in Caught
        THEN [calls |-> body.calls, logs |-> body.logs, answers |-> <<"answer-error">>,
              ret |-> "False"]
        ELSE IF body.exc # "no"
        THEN [calls |-> body.calls, logs |-> body.logs, answers |-> <<>>, ret |-> "raised"]
        ELSE [calls |-> body.calls, logs |-> body.logs, answers |-> <<body.answer>>,
              ret |-> IF body.answer = "answer-done" THEN "True" ELSE "False"]

RECURSIVE Markers(_, _, _)
Markers(c, answers, by) ==
    IF answers = <<>> THEN <<>>
    ELSE <<Marker(c, Head(answers), by)>> \o Markers(c, Tail(answers), by)

\* ------------------------------------------------------------- show neighbor
MaxWords == 4
MaxLines == 2

W_show == <<"s", "h", "o", "w">>
W_neighbor == <<"n", "e", "i", "g", "h", "b", "o", "r">>
W_summary == <<"s", "u", "m", "m", "a", "r", "y">>
W_extensive == <<"e", "x", "t", "e", "n", "s", "i", "v", "e">>
W_configuration == <<"c", "o", "n", "f", "i", "g", "u", "r", "a", "t", "i", "o", "n">>
W_json == <<"j", "s", "o", "n">>
ModeWords == {W_summary, W_extensive, W_configuration, W_json}

\* what the reactor answers about a peer
neighbor_ip(p) == <<"1", ".", Decimals[p + 1]>>
neighbor_name(p) == <<"n", " ">> \o neighbor_ip(p) \o <<" ", "a", "s", " ", Decimals[p + 1]>>

\* x in y, for two strings
IsSubstring(x, y) ==
    \E k \in 0..(Len(y) - Len(x)) : \A j \in 1..Len(x) : y[k + j] = x[j]

\* list.remove(x): drops the first occurrence
remove(words, x) ==
    LET k == CHOOSE i \in 1..Len(words) : words[i] = x /\ \A j \in 1..(i - 1) : words[j] # x
    IN  SubSeq(words, 1, k - 1) \o SubSeq(words, k + 1, Len(words))

RemoveIfPresent(words, x) == IF x \in Range(words) THEN remove(words, x) ELSE words

\* lines 202-218
Limit(words) ==
    LET w1 == RemoveIfPresent(words, W_summary)
        w2 == RemoveIfPresent(w1, W_extensive)
        w3 == RemoveIfPresent(w2, W_configuration)
        w4 == RemoveIfPresent(w3, W_json)
    IN  IF w4[Len(w4)] # W_neighbor THEN w4[Len(w4)] ELSE <<>>

\* the selection with summary tested ahead of json
SelectedMode_SummaryFirst(words) ==
    IF W_summary \in Range(words) THEN "summary"
    ELSE IF W_json \in Range(words) THEN "json"
    ELSE IF W_extensive \in Range(words) THEN "extensive"
    ELSE IF W_configuration \in Range(words) THEN "configuration"
    ELSE "none"

\* lines 260-274: the generator handed to the scheduler, if any
SelectedMode(words) ==
    IF W_json \in Range(words) THEN "json"
    ELSE IF W_summary \in Range(words) THEN "summary"
    ELSE IF W_extensive \in Range(words) THEN "extensive"
    ELSE IF W_configuration \in Range(words) THEN "configuration"
    ELSE "none"

\* the number of lines of Neighbor.extensive(...).split('\n'): the template's
\* fixed lines and its three tables, an empty table still giving one line
TemplateFixedLines == 18
TableLines(n) == IF n = 0 THEN 1 ELSE n
neighbor_cli_data(p) == [capabilities |-> p - 1, families |-> p, messages |-> 1]
ExtensiveLineCount(p) ==
    LET answer == neighbor_cli_data(p)
    IN  TemplateFixedLines + TableLines(answer.capabilities) + TableLines(answer.families)
            + TableLines(answer.messages)

\* the number of lines of str(neighbor).split('\n')
ConfigurationLineCount(e, p) == e.cfglines[p]

RECURSIVE Flatten(_)
Flatten(qq) == IF qq = <<>> THEN <<>> ELSE Head(qq) \o Flatten(Tail(qq))

Block(c, t, p, n) == [i \in 1..n |-> Line(c, t, p, i, "generator")]

\* lines 233-235: the peers whose object is in the json array; the json line
\* carries their number in its field p
JsonObjects(e) == e.peers

\* the lines with the summary rows filtered as the extensive blocks are
BodyLines_SummarySubstring(e, c, mode, limit) ==
    CASE mode = "configuration" ->
            Flatten([k \in 1..NumPeers |->
                IF k \in e.falsy THEN <<>>
                ELSE IF limit # <<>> /\ ~IsSubstring(limit, neighbor_name(k)) THEN <<>>
                ELSE Block(c, "configuration", k, ConfigurationLineCount(e, k))])
      [] mode = "json" -> <<Line(c, "json", Len(JsonObjects(e)), 1, "generator")>>
      [] mode = "extensive" ->
            Flatten([k \in 1..Len(e.peers) |->
                IF limit # <<>> /\ ~IsSubstring(limit, neighbor_name(e.peers[k])) THEN <<>>
                ELSE Block(c, "extensive", e.peers[k], ExtensiveLineCount(e.peers[k]))])
      [] mode = "summary" ->
            Flatten([k \in 1..Len(e.peers) |->
                IF limit # <<>> /\ ~IsSubstring(limit, neighbor_ip(e.peers[k])) THEN <<>>
                ELSE Block(c, "summary", e.peers[k], 1)])

\* the lines a generator writes between its yields, in order, without the
\* lines written ahead of the first loop
BodyLines(e, c, mode, limit) ==
    CASE mode = "configuration" ->
            Flatten([k \in 1..NumPeers |->
                IF k \in e.falsy THEN <<>>
                ELSE IF limit # <<>> /\ ~IsSubstring(limit, neighbor_name(k)) THEN <<>>
                ELSE Block(c, "configuration", k, ConfigurationLineCount(e, k))])
      [] mode = "json" -> <<Line(c, "json", Len(JsonObjects(e)), 1, "generator")>>
      [] mode = "extensive" ->
            Flatten([k \in 1..Len(e.peers) |->
                IF limit # <<>> /\ ~IsSubstring(limit, neighbor_name(e.peers[k])) THEN <<>>
                ELSE Block(c, "extensive", e.peers[k], ExtensiveLineCount(e.peers[k]))])
      [] mode = "summary" ->
            Flatten([k \in 1..Len(e.peers) |->
                IF limit # <<>> /\ limit # neighbor_ip(e.peers[k]) THEN <<>>
                ELSE Block(c, "summary", e.peers[k], 1)])

\* line 251: written before the loop is entered
Preamble(c, mode) ==
    IF mode = "summary" THEN <<Line(c, "header", 0, 1, "generator")>> ELSE <<>>

\* lines 230, 239, 248, 258: written once the loops are over
Epilogue(c) == <<Marker(c, "answer-done", "generator")>>

\* lines 220-258: what each resumption of the generator writes; every
\* resumption but the last ends at a yield, the last ends the generator
Resumptions(e, c, mode, limit) ==
    LET body == BodyLines(e, c, mode, limit)
        n == Len(body)
    IN  IF n = 0 THEN << Preamble(c, mode) \o Epilogue(c) >>
        ELSE [k \in 1..(n + 1) |->
                IF k = 1 THEN Preamble(c, mode) \o <<body[1]>>
                ELSE IF k = n + 1 THEN Epilogue(c)
                ELSE <<body[k]>>]

\* a generator that does not advance past its first loop iteration
GeneratorNext_Stale(e, task) ==
    LET steps == Resumptions(e, task.cmd, task.mode, task.limit)
    IN  [writes |-> steps[IF task.pos = 0 THEN 1 ELSE task.pos],
         exhausted |-> task.pos + 1 = Len(steps)]

\* next(generator)
GeneratorNext(e, task) ==
    LET steps == Resumptions(e, task.cmd, task.mode, task.limit)
    IN  [writes |-> steps[task.pos + 1], exhausted |-> task.pos + 1 = Len(steps)]

\* the usage answer with the marker written ahead of the second hint
Usage_MarkerEarly(c) ==
    << Line(c, "usage", 0, 1, "handler"), Marker(c, "answer-done", "handler"),
       Line(c, "usage", 0, 2, "handler") >>

\* lines 276-278
Usage(c) ==
    << Line(c, "usage", 0, 1, "handler"), Line(c, "usage", 0, 2, "handler"),
       Marker(c, "answer-done", "handler") >>

\* lines 200-278: what the handler writes, whether it schedules, what it returns
show_neighbor(c, command) ==
    LET words == command
        mode == SelectedMode(words)
        limit == Limit(words)
    IN  IF mode # "none"
        THEN [writes |-> <<>>, schedule |-> <<[mode |-> mode, limit |-> limit]>>, ret |-> "True"]
        ELSE [writes |-> Usage(c), schedule |-> <<>>, ret |-> "None"]

\* ------------------------------------------------------------ family section
MaxTokens == 2
MaxOps == 2

AfiNames == {"ipv4", "ipv6", "l2vpn"}
SafiNames == {"unicast", "multicast", "nlri-mpls", "mpls-vpn", "flow", "flow-vpn", "vpls"}
\* what the tokeniser can hand to an action: the safi names and an unknown word
Tokens == SafiNames \cup {"bogus"}

implemented_safi(afi_name) ==
    CASE afi_name = "ipv4" -> {"unicast", "multicast", "nlri-mpls", "mpls-vpn", "flow", "flow-vpn"}
      [] afi_name = "ipv6" -> {"unicast", "flow", "flow-vpn"}
      [] afi_name = "l2vpn" -> {"vpls"}
      [] OTHER -> {}

AfiValue(afi_name) ==
    CASE afi_name = "ipv4" -> 1
      [] afi_name = "ipv6" -> 2
      [] afi_name = "l2vpn" -> 25

SafiValue(safi_name) ==
    CASE safi_name = "unicast" -> 1
      [] safi_name = "multicast" -> 2
      [] safi_name = "nlri-mpls" -> 4
      [] safi_name = "vpls" -> 65
      [] safi_name = "mpls-vpn" -> 128
      [] safi_name = "flow" -> 133
      [] safi_name = "flow-vpn" -> 134

Afis == {AfiValue(a) : a \in AfiNames}

\* the dict self.content: its keys and, for each key, its list
EmptyContent == [keys |-> {}, known |-> [a \in Afis |-> <<>>]]

\* the loop without the test of line 70
RECURSIVE AddLoop_NoDuplicateTest(_, _, _, _, _)
AddLoop_NoDuplicateTest(c, afi_name, safi_names, i, afi) ==
    IF i > Len(safi_names) THEN [content |-> c, ret |-> "ok"]
    ELSE IF safi_names[i] \notin implemented_safi(afi_name)
         THEN [content |-> c, ret |-> "unimplemented"]
    ELSE AddLoop_NoDuplicateTest([c EXCEPT !.known[afi] = Append(@, SafiValue(safi_names[i]))],
                                 afi_name, safi_names, i + 1, afi)

\* lines 65-72: the loop over safi_names, from position i on
RECURSIVE AddLoop(_, _, _, _, _)
AddLoop(c, afi_name, safi_names, i, afi) ==
    IF i > Len(safi_names) THEN [content |-> c, ret |-> "ok"]
    ELSE IF safi_names[i] \notin implemented_safi(afi_name)
         THEN [content |-> c, ret |-> "unimplemented"]
    ELSE IF SafiValue(safi_names[i]) \in Range(c.known[afi])
         THEN [content |-> c, ret |-> "already defined"]
    ELSE AddLoop([c EXCEPT !.known[afi] = Append(@, SafiValue(safi_names[i]))],
                 afi_name, safi_names, i + 1, afi)

\* line 63: self.content.setdefault(AFI(AFI.value(afi_name)), [])
setdefault(c, afi) == [c EXCEPT !.keys = @ \cup {afi}]

\* lines 61-72; duplicate is the outcome of self._check_duplicate
_add(c, afi_name, safi_names, duplicate) ==
    IF duplicate THEN [content |-> c, ret |-> "duplicate"]
    ELSE AddLoop(setdefault(c, AfiValue(afi_name)), afi_name, safi_names, 1,
                 AfiValue(afi_name))

\* iterating a string yields its characters
Chars(name) ==
    CASE name = "unicast" -> <<"u", "n", "i", "c", "a", "s", "t">>
      [] name = "multicast" -> <<"m", "u", "l", "t", "i", "c", "a", "s", "t">>
      [] name = "nlri-mpls" -> <<"n", "l", "r", "i", "-", "m", "p", "l", "s">>
      [] name = "mpls-vpn" -> <<"m", "p", "l", "s", "-", "v", "p", "n">>
      [] name = "flow" -> <<"f", "l", "o", "w">>
      [] name = "flow-vpn" -> <<"f", "l", "o", "w", "-", "v", "p", "n">>
      [] name = "vpls" -> <<"v", "p", "l", "s">>

\* the order in which all() visits the pairs
AllOrder == << <<"ipv4", "unicast">>, <<"ipv4", "multicast">>, <<"ipv4", "nlri-mpls">>,
               <<"ipv4", "mpls-vpn">>, <<"ipv4", "flow">>, <<"ipv4", "flow-vpn">>,
               <<"ipv6", "unicast">>, <<"ipv6", "flow">>, <<"ipv6", "flow-vpn">>,
               <<"l2vpn", "vpls">> >>

\* lines 83-86: _add is handed the safi name itself, not a list holding it
RECURSIVE AllLoop(_, _, _)
AllLoop(c, k, duplicate) ==
    IF k > Len(AllOrder) THEN [content |-> c, ret |-> "ok"]
    ELSE LET r == _add(c, AllOrder[k][1], Chars(AllOrder[k][2]), duplicate)
         IN  IF r.ret # "ok" THEN r ELSE AllLoop(r.content, k + 1, duplicate)

FamilyIdle ==
    /\ content = EmptyContent
    /\ fam_last = [op |-> "enter", tokens |-> <<>>, ret |-> "ok"]
    /\ fam_ops = 0

\* ---------------------------------------------------------- the renderings
MaxSeconds == 2

\* None, among the numbers of seconds
NoSeconds == -1
\* a flag of the answer: set, unset, or None
Flags == {"True", "False", "None"}
Truthy(flag) == flag = "True"

A_ipv4 == <<"i", "p", "v", "4">>
A_ipv6 == <<"i", "p", "v", "6">>
S_unicast == <<"u", "n", "i", "c", "a", "s", "t">>
FamilyKeys == << <<A_ipv4, S_unicast>>, <<A_ipv6, S_unicast>> >>
CapabilityNames == << <<"a", "s", "n", "4">> >>

\* answer['families'][(a, s)]: (local, peer, add-path send, add-path receive)
FamilyTuples == Flags \X Flags \X {"True", "False"} \X {"True", "False"}
CapabilityTuples == Flags \X Flags

\* the dicts of the answer, as their items in iteration order
RECURSIVE Items(_, _, _)
Items(keys, values, n) ==
    IF n = 0 THEN {<<>>}
    ELSE LET rest == Items(keys, values, n - 1)
         IN  rest \cup {Append(q, [k |-> keys[n], v |-> v]) : q \in rest, v \in values}

Answers ==
    {a \in [duration : {NoSeconds} \cup 0..MaxSeconds, down : {NoSeconds} \cup 0..MaxSeconds,
            families : Items(FamilyKeys, FamilyTuples, Len(FamilyKeys)),
            capabilities : Items(CapabilityNames, CapabilityTuples, Len(CapabilityNames))] :
        (a.duration = NoSeconds) # (a.down = NoSeconds)}

\* lines 35-42
_addpath(send, receive) ==
    IF Truthy(send) /\ Truthy(receive) THEN "send/receive"
    ELSE IF Truthy(send) THEN "send"
    ELSE IF Truthy(receive) THEN "receive"
    ELSE "disabled"

\* lines 23-26
_en(value) ==
    IF value = "None" THEN "n/a"
    ELSE IF Truthy(value) THEN "enabled" ELSE "disabled"

\* the truth value of a number of seconds: None and 0 are false
SecondsTruthy(seconds) == seconds # NoSeconds /\ seconds # 0

\* str(timedelta(seconds=n)), below one day: H:MM:SS
timedelta(n) == <<n \div 3600, (n % 3600) \div 60, n % 60>>

\* line 103: '%s %s' % (a, s)
FamilyKey(k) == k[1] \o <<" ">> \o k[2]

\* lines 102-110 and 112-116: the items whose two sides are set
\* the items one side of which is set
BothSides_Either(items) == SelectSeq(items, LAMBDA item : Truthy(item.v[1]) \/ Truthy(item.v[2]))

BothSides(items) == SelectSeq(items, LAMBDA item : Truthy(item.v[1]) /\ Truthy(item.v[2]))

\* lines 75-132, without the fields it copies
as_dict(answer) ==
    LET up == answer.duration
    IN  [state |-> IF SecondsTruthy(up) THEN "up" ELSE "down",
         duration |-> IF SecondsTruthy(up) THEN answer.duration ELSE answer.down,
         families |-> [i \in 1..Len(BothSides(answer.families)) |->
                         FamilyKey(BothSides(answer.families)[i].k)],
         capabilities |-> [i \in 1..Len(BothSides(answer.capabilities)) |->
                             BothSides(answer.capabilities)[i].k],
         addpath |-> [i \in 1..Len(answer.families) |->
                        [k |-> FamilyKey(answer.families[i].k),
                         mode |-> _addpath(answer.families[i].v[3], answer.families[i].v[4])]]]

\* lines 151-154: a row of the family table; the tuple is unpacked as
\* (l, r, apr, aps)
FamilyRow(item) ==
    LET l == item.v[1]
        r == item.v[2]
        apr == item.v[3]
        aps == item.v[4]
    IN  [k |-> FamilyKey(item.k), local |-> _en(l), remote |-> _en(r), mode |-> _addpath(aps, apr)]

\* lines 134-160; timedelta(seconds=None) raises TypeError
extensive(answer) ==
    LET up == SecondsTruthy(answer.duration)
        seconds == IF up THEN answer.duration ELSE answer.down
    IN  IF seconds = NoSeconds
        THEN [raised |-> TRUE, label |-> "", hms |-> <<0, 0, 0>>, families |-> <<>>]
        ELSE [raised |-> FALSE, label |-> IF up THEN "up for" ELSE "down for",
              hms |-> timedelta(seconds),
              families |-> [i \in 1..Len(answer.families) |-> FamilyRow(answer.families[i])]]

\* lines 162-171: the up/down column
summary(answer) ==
    IF SecondsTruthy(answer.duration)
    THEN [down |-> FALSE, hms |-> timedelta(answer.duration)]
    ELSE [down |-> TRUE, hms |-> <<0, 0, 0>>]

NotRendered ==
    [json |-> [state |-> "", duration |-> NoSeconds, families |-> <<>>, capabilities |-> <<>>,
               addpath |-> <<>>],
     extensive |-> [raised |-> FALSE, label |-> "", hms |-> <<0, 0, 0>>, families |-> <<>>],
     summary |-> [down |-> FALSE, hms |-> <<0, 0, 0>>]]

RenderIdle ==
    /\ snap = [duration |-> NoSeconds, down |-> 0, families |-> <<>>, capabilities |-> <<>>]
    /\ rendered = NotRendered

\* ------------------------------------------------- the syslog forwarding loop
MaxRead == 2
MaxInterrupts == 2

\* the empty lines in a row after which the loop stops
MaxEmpty == 100

Whitespace == {" ", "\t", "\n"}

\* what sys.stdin.readline() returns: end of file, a bare newline, blanks,
\* a message, a message with blanks around it
RawLines == {<<>>, <<"\n">>, <<" ", "\n">>, <<"a", "\n">>, <<" ", "a", " ", "\n">>}

RECURSIVE lstrip(_)
lstrip(s) == IF s # <<>> /\ Head(s) \in Whitespace THEN lstrip(Tail(s)) ELSE s

RECURSIVE rstrip(_)
rstrip(s) ==
    IF s # <<>> /\ s[Len(s)] \in Whitespace THEN rstrip(SubSeq(s, 1, Len(s) - 1)) ELSE s

strip(s) == rstrip(lstrip(s))

_prefixed(level, message) == <<"now", level, "pid", message>>

\* the lines of the try block, where except KeyboardInterrupt applies
InTry == {"L19", "L20", "L21", "L22", "L26", "L29"}

SyslogIdle ==
    /\ counter = 0
    /\ line = <<>>
    /\ run = 0
    /\ read = <<>>
    /\ logged = <<>>
    /\ interrupts = 0

\* ------------------------------------------------- the asynchronous scheduler
MaxCmds == 2

Task(s, c, g) == [service |-> s, cmd |-> c, mode |-> g.mode, limit |-> g.limit, pos |-> 0]

\* schedule(service, command, generator)
schedule(q, task) == Append(q, task)

Write(o, s, entries) == [o EXCEPT ![s] = @ \o entries]

\* one step of one task: the generator is resumed once; when it is exhausted
\* the task is completed, answered and dropped
StepOne(st, e, c) ==
    LET k == CHOOSE i \in 1..Len(st.queue) : st.queue[i].cmd = c
        task == st.queue[k]
        g == GeneratorNext(e, task)
        written == Write(st.out, task.service, g.writes)
    IN  IF g.exhausted
        THEN [out |-> Write(written, task.service,
                            <<Marker(task.cmd, "answer-done", "scheduler")>>),
              queue |-> SelectSeq(st.queue, LAMBDA t : t.cmd # c),
              status |-> [st.status EXCEPT ![c] = "Completed"]]
        ELSE [out |-> written,
              queue |-> [st.queue EXCEPT ![k].pos = @ + 1],
              status |-> [st.status EXCEPT ![c] = "Running"]]

\* tick(): every task held when the tick starts is stepped once, in FIFO order
RECURSIVE TickFrom(_, _, _)
TickFrom(st, e, todo) ==
    IF todo = <<>> THEN st
    ELSE TickFrom(StepOne(st, e, Head(todo).cmd), e, Tail(todo))

\* a cancellation that marks the tasks and leaves them queued
cancelForService_Keep(st, s) ==
    [out |-> st.out,
     queue |-> st.queue,
     status |-> [c \in DOMAIN st.status |->
                    IF \E i \in 1..Len(st.queue) : st.queue[i].cmd = c /\ st.queue[i].service = s
                    THEN "Cancelled" ELSE st.status[c]]]

\* cancelForService(service)
cancelForService(st, s) ==
    [out |-> st.out,
     queue |-> SelectSeq(st.queue, LAMBDA t : t.service # s),
     status |-> [c \in DOMAIN st.status |->
                    IF \E i \in 1..Len(st.queue) : st.queue[i].cmd = c /\ st.queue[i].service = s
                    THEN "Cancelled" ELSE st.status[c]]]

Envs == [peers : Orderings(Peers), falsy : {{}, {1}},
         cfglines : {[p \in Peers |-> ((p - 1) % MaxLines) + 1]}]

AsyncIdle ==
    /\ env = [peers |-> <<>>, falsy |-> {}, cfglines |-> [p \in Peers |-> 1]]
    /\ cmds = <<>>
    /\ sched = <<>>
    /\ queue = <<>>
    /\ status = <<>>
    /\ connected = Services
    /\ inbox = [s \in Services |-> <<>>]

NoTeardown == [service |-> 1, line |-> <<>>, descriptions |-> <<>>, established |-> <<>>,
               fault |-> [site |-> "none", n |-> 0, exc |-> "no"]]

TeardownIdle ==
    /\ tin = NoTeardown
    /\ calls = <<>>
    /\ logs = <<>>
    /\ ret = "none"

\* a show neighbor command reaches its handler
ShowNeighbor(s, rest, waited) ==
    /\ s \in connected
    /\ LET c == Len(cmds) + 1
           command == <<W_show, W_neighbor>> \o rest
           r == show_neighbor(c, command)
       IN  /\ out' = Write(out, s, r.writes)
           /\ cmds' = Append(cmds, [service |-> s, kind |-> "show", words |-> command,
                                    ret |-> r.ret, waited |-> waited])
           /\ IF r.schedule # <<>>
              THEN /\ queue' = schedule(queue, Task(s, c, r.schedule[1]))
                   /\ sched' = Append(sched, [service |-> s, cmd |-> c, mode |-> r.schedule[1].mode])
                   /\ status' = Append(status, "Pending")
              ELSE /\ UNCHANGED <<queue, sched>>
                   /\ status' = Append(status, "sync")
    /\ UNCHANGED <<sysvars, rendervars, pc, env, connected, tdvars, famvars>>

\* a teardown command reaches its handler
TeardownCmd(s, in, waited) ==
    /\ s \in connected
    /\ LET c == Len(cmds) + 1
           r == teardown(in)
       IN  /\ out' = Write(out, s, Markers(c, r.answers, "handler"))
           /\ calls' = calls \o r.calls
           /\ logs' = logs \o r.logs
           /\ ret' = r.ret
           /\ cmds' = Append(cmds, [service |-> s, kind |-> "teardown", words |-> <<in.line>>,
                                    ret |-> r.ret, waited |-> waited])
           /\ status' = Append(status, "sync")
    /\ UNCHANGED <<sysvars, rendervars, pc, tin, env, connected, queue, sched, famvars>>

Apply(st) ==
    /\ out' = st.out
    /\ queue' = st.queue
    /\ status' = st.status

Tick ==
    /\ pc \in {"show", "reactor"}
    /\ queue # <<>>
    /\ Apply(TickFrom([out |-> out, queue |-> queue, status |-> status], env, queue))
    /\ UNCHANGED <<sysvars, rendervars, pc, env, cmds, sched, connected, inbox, tdvars, famvars>>

StepTask ==
    /\ pc = "reactor"
    /\ \E i \in 1..Len(queue) :
          Apply(StepOne([out |-> out, queue |-> queue, status |-> status], env, queue[i].cmd))
    /\ UNCHANGED <<sysvars, rendervars, pc, env, cmds, sched, connected, inbox, tdvars, famvars>>

\* the control channel of a service closes
Disconnect ==
    /\ pc = "reactor"
    /\ \E s \in connected :
          /\ connected' = connected \ {s}
          /\ inbox' = [inbox EXCEPT ![s] = <<>>]
          /\ Apply(cancelForService([out |-> out, queue |-> queue, status |-> status], s))
    /\ UNCHANGED <<sysvars, rendervars, pc, env, cmds, sched, tdvars, famvars>>

\* ------------------------------------------- one show neighbor command alone
Filters == {neighbor_ip(1), <<"1", ".">>}
ShowRests == SeqsUpTo(ModeWords \cup Filters, MaxWords)

InitShow ==
    /\ pc = "show"
    /\ FamilyIdle
    /\ RenderIdle
    /\ SyslogIdle
    /\ TeardownIdle
    /\ out = [s \in Services |-> <<>>]
    /\ env \in Envs
    /\ cmds = <<>>
    /\ sched = <<>>
    /\ queue = <<>>
    /\ status = <<>>
    /\ connected = Services
    /\ inbox = [s \in Services |-> <<>>]

Show ==
    /\ pc = "show"
    /\ cmds = <<>>
    /\ \E rest \in ShowRests : ShowNeighbor(1, rest, FALSE)
    /\ UNCHANGED inbox

NextShow == Show \/ Tick
SpecShow == InitShow /\ [][NextShow]_vars

\* --------------------------------------------- several commands, two services
AsyncRests == {<<>>, <<W_json>>, <<W_summary>>, <<W_configuration>>}
AsyncTeardowns ==
    [service : {1}, line : {Verb \o <<" ", "6">>},
     descriptions : {<<[m |-> Peers, raises |-> "no"]>>}, established : {<<1>>},
     fault : {[site |-> "none", n |-> 0, exc |-> "no"]}]

AsyncEnvs == {e \in Envs : e.falsy = {} /\ e.peers \in {<<>>, [k \in 1..NumPeers |-> k]}}

InitAsync ==
    /\ pc = "reactor"
    /\ FamilyIdle
    /\ RenderIdle
    /\ SyslogIdle
    /\ TeardownIdle
    /\ out = [s \in Services |-> <<>>]
    /\ env \in AsyncEnvs
    /\ cmds = <<>>
    /\ sched = <<>>
    /\ queue = <<>>
    /\ status = <<>>
    /\ connected = Services
    /\ inbox = [s \in Services |-> <<>>]

Busy(q, s) == \E i \in 1..Len(q) : q[i].service = s

\* a dispatcher that never waits
ready_Always(q, s) == TRUE

\* a service's next command starts once the scheduler holds no task of it
ready(q, s) == ~Busy(q, s)

Received == Len(cmds) + Len(inbox[1]) + Len(inbox[2])

\* a command line arrives on the control channel of a service
Receive ==
    /\ pc = "reactor"
    /\ Received < MaxCmds
    /\ \E s \in connected :
          \/ \E rest \in AsyncRests :
                inbox' = [inbox EXCEPT ![s] = Append(@,
                    [kind |-> "show", rest |-> rest, in |-> NoTeardown,
                     busy |-> Busy(queue, s)])]
          \/ \E in \in AsyncTeardowns :
                inbox' = [inbox EXCEPT ![s] = Append(@,
                    [kind |-> "teardown", rest |-> <<>>, in |-> in, busy |-> Busy(queue, s)])]
    /\ UNCHANGED <<sysvars, rendervars, pc, out, env, cmds, sched, queue, status, connected, tdvars, famvars>>

\* the oldest received command of a service is handed to its handler
DispatchShow ==
    /\ pc = "reactor"
    /\ \E s \in connected :
          /\ inbox[s] # <<>>
          /\ Head(inbox[s]).kind = "show"
          /\ ready(queue, s)
          /\ ShowNeighbor(s, Head(inbox[s]).rest, Head(inbox[s]).busy)
          /\ inbox' = [inbox EXCEPT ![s] = Tail(@)]

DispatchTeardown ==
    /\ pc = "reactor"
    /\ \E s \in connected :
          /\ inbox[s] # <<>>
          /\ Head(inbox[s]).kind = "teardown"
          /\ ready(queue, s)
          /\ TeardownCmd(s, Head(inbox[s]).in, Head(inbox[s]).busy)
          /\ inbox' = [inbox EXCEPT ![s] = Tail(@)]

NextAsync == Receive \/ DispatchShow \/ DispatchTeardown \/ Tick \/ StepTask \/ Disconnect
SpecAsync == InitAsync /\ [][NextAsync]_vars

\* ---------------------------------------------------- show neighbor: claims
Precedence == <<W_json, W_summary, W_extensive, W_configuration>>
ModeName == <<"json", "summary", "extensive", "configuration">>
ModesPresent(words) == {w \in ModeWords : w \in Range(words)}
Highest(M) == ModeName[CHOOSE i \in 1..4 : Precedence[i] \in M /\ \A j \in 1..(i - 1) : Precedence[j] \notin M]

ShowCmds == {c \in 1..Len(cmds) : cmds[c].kind = "show"}
Scheduled(c) == SelectSeq(sched, LAMBDA x : x.cmd = c)
OutOf(c) == SelectSeq(out[cmds[c].service], LAMBDA e : e.cmd = c)
LinesOf(c) == SelectSeq(OutOf(c), LAMBDA e : e.kind = "line")
MarkersOf(c) == SelectSeq(OutOf(c), IsMarker)

\* C4: whatever mode tokens a show neighbor command holds, exactly one task
\* is scheduled, that of the highest token in json > summary > extensive >
\* configuration, and the command does not fail
C4_Precedence ==
    \A c \in ShowCmds :
        ModesPresent(cmds[c].words) # {} =>
            /\ Len(Scheduled(c)) = 1
            /\ Scheduled(c)[1].mode = Highest(ModesPresent(cmds[c].words))
            /\ Scheduled(c)[1].service = cmds[c].service
            /\ cmds[c].ret = "True"
            /\ \A i \in 1..Len(OutOf(c)) : OutOf(c)[i].kind # "answer-error"

C4_Witness ==
    \E c \in ShowCmds :
        /\ ModesPresent(cmds[c].words) = ModeWords
        /\ cmds[c].words[3] = W_configuration
        /\ Len(Scheduled(c)) = 1
        /\ status[c] = "Completed"

\* C5: a show neighbor command without a mode token writes the two usage
\* hints, then one answer-done, and schedules nothing
C5_Usage ==
    \A c \in ShowCmds :
        ModesPresent(cmds[c].words) = {} =>
            /\ Len(OutOf(c)) = 3
            /\ OutOf(c)[1].kind = "line" /\ OutOf(c)[1].t = "usage" /\ OutOf(c)[1].i = 1
            /\ OutOf(c)[2].kind = "line" /\ OutOf(c)[2].t = "usage" /\ OutOf(c)[2].i = 2
            /\ OutOf(c)[3].kind = "answer-done"
            /\ Len(Scheduled(c)) = 0
            /\ \A i \in 1..Len(queue) : queue[i].cmd # c

C5_Witness ==
    \E c \in ShowCmds :
        /\ ModesPresent(cmds[c].words) = {}
        /\ Len(cmds[c].words) = 3
        /\ Len(OutOf(c)) = 3

\* C6: a show neighbor task stepped until its generator is exhausted has
\* exactly one answer marker, an answer-done, written after all its lines
C6_OneMarkerLast ==
    \A c \in ShowCmds :
        status[c] = "Completed" =>
            /\ Len(MarkersOf(c)) = 1
            /\ OutOf(c)[Len(OutOf(c))].kind = "answer-done"

\* the lines a command is to deliver, in generation order
Expected(c) ==
    Preamble(c, SelectedMode(cmds[c].words))
        \o BodyLines(env, c, SelectedMode(cmds[c].words), Limit(cmds[c].words))

IsPrefix(x, y) == Len(x) <= Len(y) /\ x = SubSeq(y, 1, Len(x))

\* C7: under any interleaving of the steps of the tasks, each task delivers
\* each of its lines once and in generation order to its own service, and no
\* service receives anything of a command of another service
C7_OwnLinesInOrder ==
    /\ \A s \in Services : \A i \in 1..Len(out[s]) : cmds[out[s][i].cmd].service = s
    /\ \A c \in ShowCmds :
          status[c] # "sync" =>
              /\ IsPrefix(LinesOf(c), Expected(c))
              /\ status[c] = "Completed" => LinesOf(c) = Expected(c)

\* two tasks of two services, both part of the way through their lines
C7_Witness ==
    \E i, j \in 1..Len(queue) :
        /\ queue[i].service # queue[j].service
        /\ queue[i].pos >= 1 /\ queue[j].pos >= 2
        /\ Len(LinesOf(queue[i].cmd)) >= 1
        /\ Len(LinesOf(queue[j].cmd)) >= 2

\* C8: once its service has disconnected, nothing more is written for a
\* task: no line and no answer marker
C8_SilentAfterDisconnect ==
    [][\A s \in Services : s \notin connected => out'[s] = out[s]]_vars

\* a task cancelled after part of its output, while another task goes on
C8_Witness ==
    \E c \in ShowCmds :
        /\ status[c] = "Cancelled"
        /\ Len(LinesOf(c)) >= 1
        /\ MarkersOf(c) = <<>>
        /\ \E d \in ShowCmds : status[d] = "Completed" /\ cmds[d].service # cmds[c].service

\* C9: a service never sees the output of one of its commands mixed with
\* that of another: all of the earlier command comes before any of the later
C9_NoInterleavingPerService ==
    \A s \in Services : \A i, j \in 1..Len(out[s]) :
        i < j => out[s][i].cmd <= out[s][j].cmd

\* a command received while a task of its service was active, now answered
C9_Witness ==
    \E c \in 1..Len(cmds) : \E b \in ShowCmds :
        /\ cmds[c].waited
        /\ b < c
        /\ cmds[b].service = cmds[c].service
        /\ Len(LinesOf(b)) >= 2
        /\ OutOf(c) # <<>>

\* the peers a command has written a line of kind t for
Emitted(c, t) == {LinesOf(c)[i].p : i \in {j \in 1..Len(LinesOf(c)) : LinesOf(c)[j].t = t}}
FilterOf(c) == Limit(cmds[c].words)
ModeOf(c) == Scheduled(c)[1].mode
Done(c) == Len(Scheduled(c)) = 1 /\ status[c] = "Completed"

C14_MarkerLeftToScheduler ==
    \A c \in ShowCmds :
        ModesPresent(cmds[c].words) # {} =>
            /\ Len(Scheduled(c)) = 1
            /\ \A i \in 1..Len(OutOf(c)) : IsMarker(OutOf(c)[i]) => OutOf(c)[i].by = "scheduler"

AllLines(s) == SelectSeq(out[s], LAMBDA e : e.kind = "line")

\* C15: one resumption of a show neighbor generator writes at most one line
C15_OneLinePerStep ==
    [][cmds' = cmds => \A s \in Services : Len(AllLines(s)') <= Len(AllLines(s)) + 1]_vars

\* ---------------------------------------------- the family section, driven
\* line 54-55: enter opens an empty section
InitFamily ==
    /\ FamilyIdle
    /\ RenderIdle
    /\ SyslogIdle
    /\ AsyncIdle
    /\ pc = "family"
    /\ TeardownIdle
    /\ out = [s \in Services |-> <<>>]

\* lines 74-81: ipv4, ipv6 and l2vpn
Add(afi_name) ==
    /\ pc = "family"
    /\ fam_ops < MaxOps
    /\ \E safi_names \in SeqsUpTo(Tokens, MaxTokens), duplicate \in BOOLEAN :
          LET r == _add(content, afi_name, safi_names, duplicate)
          IN  /\ content' = r.content
              /\ fam_last' = [op |-> afi_name, tokens |-> safi_names, ret |-> r.ret]
    /\ fam_ops' = fam_ops + 1
    /\ UNCHANGED <<sysvars, rendervars, pc, out, tdvars, asyncvars>>

ipv4 == Add("ipv4")
ipv6 == Add("ipv6")
l2vpn == Add("l2vpn")

all ==
    /\ pc = "family"
    /\ fam_ops < MaxOps
    /\ \E duplicate \in BOOLEAN :
          LET r == AllLoop(content, 1, duplicate)
          IN  /\ content' = r.content
              /\ fam_last' = [op |-> "all", tokens |-> <<>>, ret |-> r.ret]
    /\ fam_ops' = fam_ops + 1
    /\ UNCHANGED <<sysvars, rendervars, pc, out, tdvars, asyncvars>>

NextFamily == ipv4 \/ ipv6 \/ l2vpn \/ all
SpecFamily == InitFamily /\ [][NextFamily]_vars

\* C10: an ipv4/ipv6/l2vpn operation that fails leaves the declaration
\* exactly as it was before the call
C10_FailedAddLeavesContent ==
    [][(fam_ops' = fam_ops + 1 /\ fam_last'.op \in AfiNames /\ fam_last'.ret # "ok")
          => content' = content]_vars

\* the declaration all is to leave: every implemented pair, each once
Implemented(afi_name) == {SafiValue(n) : n \in implemented_safi(afi_name)}
AfiNameOf(afi) == CHOOSE a \in AfiNames : AfiValue(a) = afi

\* C11: all, on a freshly opened family section, ends without raising and
\* leaves for each of ipv4, ipv6 and l2vpn exactly its implemented SAFIs, each
\* once
C11_AllOnFresh ==
    [][(fam_ops = 0 /\ fam_last'.op = "all" /\ fam_last'.ret # "duplicate") =>
          /\ fam_last'.ret = "ok"
          /\ content'.keys = Afis
          /\ \A afi \in Afis :
                /\ Range(content'.known[afi]) = Implemented(AfiNameOf(afi))
                /\ Len(content'.known[afi]) = Cardinality(Implemented(AfiNameOf(afi)))]_vars

\* C16: whatever operations were applied, every pair is recorded at most once
\* and every recorded pair is implemented for its AFI
C16_NoDuplicateNoUnimplemented ==
    \A afi \in Afis :
        /\ Cardinality(Range(content.known[afi])) = Len(content.known[afi])
        /\ Range(content.known[afi]) \subseteq Implemented(AfiNameOf(afi))
        /\ afi \notin content.keys => content.known[afi] = <<>>

\* a section holding two pairs of one AFI, after an operation that failed
C16_Witness ==
    /\ fam_ops = MaxOps
    /\ fam_last.ret \in {"unimplemented", "already defined"}
    /\ \E afi \in Afis : Len(content.known[afi]) >= 2

\* ------------------------------------------------ the renderings of an answer
InitRender ==
    /\ pc = "answer"
    /\ FamilyIdle
    /\ AsyncIdle
    /\ TeardownIdle
    /\ out = [s \in Services |-> <<>>]
    /\ snap \in Answers
    /\ rendered = NotRendered
    /\ SyslogIdle

Render ==
    /\ pc = "answer"
    /\ rendered' = [json |-> as_dict(snap), extensive |-> extensive(snap), summary |-> summary(snap)]
    /\ pc' = "rendered"
    /\ UNCHANGED <<sysvars, snap, out, tdvars, famvars, asyncvars>>

NextRender == Render
SpecRender == InitRender /\ [][NextRender]_vars

Enabled(flag) == flag = "True"

\* C12: the families list of the json rendering holds the key of a pair
\* exactly when its local and its peer side are enabled, and the capabilities
\* list a name exactly when both sides have it enabled
C12_BothSidesEnabled ==
    pc = "rendered" =>
        /\ \A i \in 1..Len(snap.families) :
              (FamilyKey(snap.families[i].k) \in Range(rendered.json.families))
                  <=> (Enabled(snap.families[i].v[1]) /\ Enabled(snap.families[i].v[2]))
        /\ Range(rendered.json.families)
              \subseteq {FamilyKey(snap.families[i].k) : i \in 1..Len(snap.families)}
        /\ \A i \in 1..Len(snap.capabilities) :
              (snap.capabilities[i].k \in Range(rendered.json.capabilities))
                  <=> (Enabled(snap.capabilities[i].v[1]) /\ Enabled(snap.capabilities[i].v[2]))
        /\ Range(rendered.json.capabilities)
              \subseteq {snap.capabilities[i].k : i \in 1..Len(snap.capabilities)}

\* one family listed, one left out for its peer side, a capability listed
C12_Witness ==
    /\ pc = "rendered"
    /\ Len(snap.families) = 2
    /\ Len(rendered.json.families) = 1
    /\ \E i \in 1..2 : snap.families[i].v[1] = "True" /\ snap.families[i].v[2] # "True"
    /\ Len(rendered.json.capabilities) = 1

\* the mode of a family whose tuple is (local, peer, send, receive)
CanonicalMode(v) ==
    IF Enabled(v[3]) /\ Enabled(v[4]) THEN "send/receive"
    ELSE IF Enabled(v[3]) THEN "send"
    ELSE IF Enabled(v[4]) THEN "receive"
    ELSE "disabled"

\* C17: for every family the add-path mode of the extensive table is that of
\* the json rendering: send/receive, send, receive or disabled after the
\* flags addpath_send and addpath_receive
C17_SameAddPath ==
    (pc = "rendered" /\ ~rendered.extensive.raised) =>
        \A i \in 1..Len(snap.families) :
            /\ rendered.extensive.families[i].mode = rendered.json.addpath[i].mode
            /\ rendered.json.addpath[i].mode = CanonicalMode(snap.families[i].v)

\* C18: with exactly one of duration and down set, json says up with the
\* duration exactly when duration is set, down with the down value
\* otherwise, and the summary row reads down exactly when duration is None
C18_UpIffDuration ==
    pc = "rendered" =>
        /\ snap.duration # NoSeconds =>
              rendered.json.state = "up" /\ rendered.json.duration = snap.duration
        /\ snap.duration = NoSeconds =>
              rendered.json.state = "down" /\ rendered.json.duration = snap.down
        /\ rendered.summary.down <=> snap.duration = NoSeconds

\* ------------------------------------------------ the syslog loop, driven
others == <<out, tdvars, famvars, asyncvars, rendervars>>

InitSyslog ==
    /\ pc = "L17"
    /\ FamilyIdle
    /\ AsyncIdle
    /\ TeardownIdle
    /\ RenderIdle
    /\ out = [s \in Services |-> <<>>]
    /\ SyslogIdle

\* while True: try:
While ==
    /\ pc = "L17"
    /\ pc' = "L19"
    /\ UNCHANGED <<sysvars, others>>

\* line = sys.stdin.readline().strip()
Readline ==
    /\ pc = "L19"
    /\ \E raw \in RawLines :
          /\ strip(raw) # <<>> => Len(read) < MaxRead
          /\ line' = strip(raw)
          /\ run' = IF strip(raw) = <<>> THEN run + 1 ELSE 0
          /\ read' = IF strip(raw) = <<>> THEN read ELSE Append(read, strip(raw))
    /\ pc' = "L20"
    /\ UNCHANGED <<counter, logged, interrupts, others>>

\* if line == "":
Test ==
    /\ pc = "L20"
    /\ pc' = IF line = <<>> THEN "L21" ELSE "L26"
    /\ UNCHANGED <<sysvars, others>>

\* counter += 1
Count ==
    /\ pc = "L21"
    /\ counter' = counter + 1
    /\ pc' = "L22"
    /\ UNCHANGED <<line, run, read, logged, interrupts, others>>

\* if counter > 100: break, otherwise continue
BreakOrContinue ==
    /\ pc = "L22"
    /\ pc' = IF counter > MaxEmpty THEN "exited" ELSE "L17"
    /\ UNCHANGED <<sysvars, others>>

\* counter = 0
Reset ==
    /\ pc = "L26"
    /\ counter' = 0
    /\ pc' = "L29"
    /\ UNCHANGED <<line, run, read, logged, interrupts, others>>

\* syslog.syslog(syslog.LOG_ALERT, _prefixed('INFO', line))
Syslog ==
    /\ pc = "L29"
    /\ logged' = Append(logged, _prefixed("INFO", line))
    /\ pc' = "L17"
    /\ UNCHANGED <<counter, line, run, read, interrupts, others>>

\* a KeyboardInterrupt raised in the try block: the line under execution
\* does not complete, the except clause takes over
Interrupt ==
    /\ pc \in InTry
    /\ interrupts < MaxInterrupts
    /\ interrupts' = interrupts + 1
    /\ pc' = "L31"
    /\ UNCHANGED <<counter, line, run, read, logged, others>>

\* except KeyboardInterrupt: pass
Pass ==
    /\ pc = "L31"
    /\ pc' = "L17"
    /\ UNCHANGED <<sysvars, others>>

\* a KeyboardInterrupt raised outside the try block is not caught
InterruptOutside ==
    /\ pc \in {"L17", "L31"}
    /\ interrupts < MaxInterrupts
    /\ interrupts' = interrupts + 1
    /\ pc' = "killed"
    /\ UNCHANGED <<counter, line, run, read, logged, others>>

NextSyslog ==
    \/ While
    \/ Readline
    \/ Test
    \/ Count
    \/ BreakOrContinue
    \/ Reset
    \/ Syslog
    \/ Interrupt
    \/ Pass
    \/ InterruptOutside

SpecSyslog == InitSyslog /\ [][NextSyslog]_vars

\* C19: the loop ends only after more than 100 empty lines in a row; every
\* line that is not empty is forwarded exactly once and sets the counter of
\* empty lines back to 0
C19_ExitOnlyAfterEmptyRun ==
    /\ pc = "exited" => run > MaxEmpty
    /\ pc = "L17" =>
          /\ logged = [i \in 1..Len(read) |-> _prefixed("INFO", read[i])]
          /\ run = 0 => counter = 0

\* ------------------------------------------------- the teardown command alone
InitTeardown ==
    /\ FamilyIdle
    /\ RenderIdle
    /\ SyslogIdle
    /\ AsyncIdle
    /\ pc = "ready"
    /\ tin \in TeardownInputs
    /\ out = [s \in Services |-> <<>>]
    /\ calls = <<>>
    /\ logs = <<>>
    /\ ret = "none"

Teardown ==
    /\ pc = "ready"
    /\ LET r == teardown(tin)
       IN  /\ out' = [out EXCEPT ![tin.service] = @ \o Markers(1, r.answers, "handler")]
           /\ calls' = r.calls
           /\ logs' = r.logs
           /\ ret' = r.ret
    /\ pc' = "done"
    /\ UNCHANGED <<sysvars, rendervars, tin, famvars, asyncvars>>

NextTeardown == Teardown
SpecTeardown == InitTeardown /\ [][NextTeardown]_vars

\* the markers written to the service of the teardown command
TeardownMarkers == SelectSeq(out[tin.service], IsMarker)

\* C1: the teardown handler writes exactly one answer marker on every exit
\* path, the paths on which a collaborator raises included
C1_ExactlyOneMarker == pc = "done" => Len(TeardownMarkers) = 1

\* C2: a teardown command that ends with answer-error, for want of a code
\* segment, for a code that is not all digits or for a description that does
\* not resolve or match, has called teardown_peer zero times
C2_ErrorMeansNoTeardown ==
    (/\ pc = "done"
     /\ TeardownMarkers = <<Marker(1, "answer-error", "handler")>>
     /\ tin.fault.site \in {"none", "extract_neighbors"})
        => Len(calls) = 0

\* the established peers some description of the command matches
Matching == {key \in Range(tin.established) :
                \E i \in 1..Len(tin.descriptions) : key \in tin.descriptions[i].m}
CallsFor(key) == Len(SelectSeq(calls, LAMBDA c : c.key = key))

\* C3: a successful teardown calls teardown_peer exactly once, with the
\* integer value of the code, for every established peer that matches and for
\* no other, and emits one log line per torn-down peer
C3_OncePerMatchingPeer ==
    (pc = "done" /\ ret = "True") =>
        /\ \A key \in Peers : CallsFor(key) = IF key \in Matching THEN 1 ELSE 0
        /\ \A i \in 1..Len(calls) : calls[i].code = int(AfterFirstSpace(tin.line))
        /\ Len(logs) = Cardinality(Matching)
====
